---------------------------- MODULE Spec2Model ----------------------------
(***************************************************************************)
(* A model of FixyFixyPictures.py: the piece locator (extract_pieces and   *)
(* its helpers), the layout inference (determine_grid_layout), the         *)
(* composition (reconstruct_image) and the run (main).                     *)
(*                                                                         *)
(* Strings are sequences of one-character strings, so that endswith,       *)
(* startswith, the substring test, basename and the digit search are       *)
(* computed as the code computes them.                                     *)
(***************************************************************************)
EXTENDS Integers, Sequences, FiniteSets, TLC

(***************************************************************************)
(* Bounds of the model.                                                    *)
(***************************************************************************)
\* longest directory listing of the locator's specification
MaxFiles == 4
\* largest piece width and height
MaxDim == 2
\* largest piece count of the layout specification (besides ExpectedCount)
MaxN == 40
\* largest column and row count of the composition specification
MaxGrid == 3

\* expected_count of main, the piece count of the legacy fallback
ExpectedCount == 1000

(***************************************************************************)
(* Strings.                                                                *)
(***************************************************************************)
Digits == {"0", "1", "2", "3", "4", "5", "6", "7", "8", "9"}

DigitVal(c) ==
  CASE c = "0" -> 0 [] c = "1" -> 1 [] c = "2" -> 2 [] c = "3" -> 3
    [] c = "4" -> 4 [] c = "5" -> 5 [] c = "6" -> 6 [] c = "7" -> 7
    [] c = "8" -> 8 [] c = "9" -> 9

Min(a, b) == IF a <= b THEN a ELSE b

\* str.startswith
StartsWith(s, pre) ==
  /\ Len(pre) <= Len(s)
  /\ SubSeq(s, 1, Len(pre)) = pre

\* str.endswith
EndsWith(s, suf) ==
  /\ Len(suf) <= Len(s)
  /\ SubSeq(s, Len(s) - Len(suf) + 1, Len(s)) = suf

\* sub in s
Contains(s, sub) ==
  \E k \in 1..(Len(s) - Len(sub) + 1) : SubSeq(s, k, k + Len(sub) - 1) = sub

\* os.path.join(a, b) for a relative b
path_join(a, b) ==
  IF a = <<>> THEN b
  ELSE IF a[Len(a)] = "/" THEN a \o b
  ELSE a \o <<"/">> \o b

\* os.path.basename: what follows the last separator
basename(p) ==
  LET seps == {k \in 1..Len(p) : p[k] = "/"}
  IN  IF seps = {} THEN p
      ELSE LET last == CHOOSE k \in seps : \A j \in seps : j <= k
           IN  SubSeq(p, last + 1, Len(p))

\* int() of a run of decimal digits
RECURSIVE int_of(_)
int_of(ds) ==
  IF ds = <<>> THEN 0
  ELSE 10 * int_of(SubSeq(ds, 1, Len(ds) - 1)) + DigitVal(ds[Len(ds)])

(***************************************************************************)
(* The names of the model's files and directories.                         *)
(***************************************************************************)
PNG == <<".", "p", "n", "g">>
JPG == <<".", "j", "p", "g">>
JPEG == <<".", "j", "p", "e", "g">>
ImageExtensions == {PNG, JPG, JPEG}
MetaPrefix == <<".", "_">>
MACOSX == <<"_", "_", "M", "A", "C", "O", "S", "X">>

\* extract_dir, the working directory "pieces"
WorkDir == <<"p", "i", "e", "c", "e", "s">>
\* an input directory that is not the working directory
InDir == <<"i", "n">>

Piece001 == <<"p", "i", "e", "c", "e", "_", "0", "0", "1">> \o PNG

\* The files a listing is drawn from: sub is the directory of the file below
\* the search root (empty: the root itself), name the file's name.
Catalogue == <<
  [sub |-> <<>>, name |-> Piece001],                                 \* 1
  [sub |-> <<>>, name |-> MetaPrefix \o Piece001],                   \* metadata
  [sub |-> <<"a">>, name |-> <<"s", "0">> \o JPG],                   \* 0
  [sub |-> MACOSX, name |-> <<"p", "_", "0", "0", "3">> \o PNG],     \* metadata
  [sub |-> <<>>, name |-> <<"x">> \o JPEG],                          \* no digit
  [sub |-> <<>>, name |-> <<"n", "2", ".", "t", "x", "t">>],         \* no image
  [sub |-> <<"v", "2">>, name |-> <<"t", "3", "b", "4">> \o PNG],    \* 3
  [sub |-> <<>>, name |-> <<"0", "1">> \o PNG],                      \* 1 again
  [sub |-> <<>>, name |-> <<"4">> \o JPG] >>                         \* 4

\* a file left in the working directory by an earlier run
StaleFile == [sub |-> <<>>, name |-> <<"o", "l", "d", "9">> \o PNG]

Files == {Catalogue[k] : k \in 1..Len(Catalogue)}

\* os.walk yields the search root first: the root's own files come before the
\* files of its subdirectories.
WalkOrdered(l) ==
  \A a, b \in 1..Len(l) : (a < b /\ l[b].sub = <<>>) => l[a].sub = <<>>

RECURSIVE ListingsOfLen(_)
ListingsOfLen(n) ==
  IF n = 0 THEN {<<>>}
  ELSE {Append(l, f) : l \in ListingsOfLen(n - 1), f \in Files}

Distinct(l) == \A a, b \in 1..Len(l) : a # b => l[a] # l[b]

\* the listings of at most n distinct files, in an order os.walk can give
Listings(n) ==
  UNION {{l \in ListingsOfLen(k) : Distinct(l) /\ WalkOrdered(l)} :
           k \in 0..Min(n, Len(Catalogue))}

\* the first n files of the catalogue, the root's own files first
RootFirst(l) ==
  SelectSeq(l, LAMBDA f : f.sub = <<>>) \o SelectSeq(l, LAMBDA f : f.sub # <<>>)

Prefixes == {RootFirst(SubSeq(Catalogue, 1, n)) : n \in 0..Len(Catalogue)}

(***************************************************************************)
(* find_image_files, extract_number_from_filename and the sort.            *)
(***************************************************************************)
\* os.walk(directory): the (root, file) pairs in the order of the walk
os_walk(directory, listing) ==
  [k \in 1..Len(listing) |->
     [root |-> path_join(directory, listing[k].sub), f |-> listing[k].name]]

\* a bug: the metadata prefix is not looked at
IsImageName_any_prefix(f) == \E ext \in ImageExtensions : EndsWith(f, ext)

IsImageName(f) ==
  /\ \E ext \in ImageExtensions : EndsWith(f, ext)
  /\ ~StartsWith(f, MetaPrefix)

find_image_files(directory, listing) ==
  LET walk == os_walk(directory, listing)
      kept == SelectSeq(walk,
                LAMBDA e : ~Contains(e.root, MACOSX) /\ IsImageName(e.f))
  IN  [k \in 1..Len(kept) |-> path_join(kept[k].root, kept[k].f)]

extract_number_from_filename(filepath) ==
  LET filename == basename(filepath)
      ds == {k \in 1..Len(filename) : filename[k] \in Digits}
  IN  IF ds = {} THEN 0
      ELSE LET first == CHOOSE k \in ds : \A j \in ds : k <= j
               stop == CHOOSE k \in first..Len(filename) :
                         /\ \A j \in first..k : filename[j] \in Digits
                         /\ (k = Len(filename) \/ filename[k + 1] \notin Digits)
           IN  int_of(SubSeq(filename, first, stop))

\* a bug: a sort that puts an element before the elements of equal key
RECURSIVE sort_insert_unstable(_, _)
sort_insert_unstable(sorted, x) ==
  IF sorted = <<>> THEN <<x>>
  ELSE IF extract_number_from_filename(sorted[Len(sorted)])
            < extract_number_from_filename(x)
       THEN Append(sorted, x)
       ELSE Append(sort_insert_unstable(SubSeq(sorted, 1, Len(sorted) - 1), x),
                   sorted[Len(sorted)])

\* list.sort(key=...): stable, an element goes after the elements whose key
\* is not larger
RECURSIVE sort_insert(_, _)
sort_insert(sorted, x) ==
  IF sorted = <<>> THEN <<x>>
  ELSE IF extract_number_from_filename(sorted[Len(sorted)])
            <= extract_number_from_filename(x)
       THEN Append(sorted, x)
       ELSE Append(sort_insert(SubSeq(sorted, 1, Len(sorted) - 1), x),
                   sorted[Len(sorted)])

RECURSIVE sort_by_number(_)
sort_by_number(l) ==
  IF l = <<>> THEN <<>>
  ELSE sort_insert(sort_by_number(SubSeq(l, 1, Len(l) - 1)), l[Len(l)])

\* a bug: the numbering is expected to start at 0
missing_numbers_from_zero(image_files) ==
  LET numbers == {extract_number_from_filename(image_files[k]) :
                    k \in 1..Len(image_files)}
      hi == CHOOSE n \in numbers : \A m \in numbers : m <= n
  IN  (0..hi) \ numbers

\* the gaps of the numbering (lines 71-77)
missing_numbers(image_files) ==
  LET numbers == {extract_number_from_filename(image_files[k]) :
                    k \in 1..Len(image_files)}
      lo == CHOOSE n \in numbers : \A m \in numbers : n <= m
      hi == CHOOSE n \in numbers : \A m \in numbers : m <= n
      expected == lo..hi
  IN  expected \ numbers

(***************************************************************************)
(* The state of a run.                                                     *)
(***************************************************************************)
VARIABLES
  input_path,     \* args.input_path: "in", "pieces", "zip", "file", "nowhere"
  keep_pieces,    \* args.keep_pieces
  zipFiles,       \* the members of the archive, when the input is one
  fs,             \* the directories "pieces" and "in": exists, files
  fs0,            \* fs as the run found it
  img,            \* what the image files hold: sizes and modes
  pc,             \* the position of the run
  search_dir,     \* extract_pieces' result, <<>> for None
  piece_files,    \* the located pieces, in order
  missing,        \* the missing numbers of extract_pieces
  warnings,       \* the warnings printed so far
  piece_width,    \* reconstruct_image's piece_width
  piece_height,   \* reconstruct_image's piece_height
  num_pieces,     \* determine_grid_layout's num_pieces
  layout_width,   \* determine_grid_layout's piece_width
  layout_height,  \* determine_grid_layout's piece_height
  grid_cols,      \* reconstruct_image's grid_cols
  grid_rows,      \* reconstruct_image's grid_rows
  layout_via,     \* the return statement determine_grid_layout left by
  canvas,         \* reconstructed: mode, w, h, px
  i,              \* the placement loop's index
  pieces_placed,  \* the placement loop's count
  saved,          \* how often the canvas was saved
  output,         \* the image at output_path
  exit_code,      \* the process' exit code, -1 while it runs
  open_failed     \* an Image.open raised

vars == <<input_path, keep_pieces, zipFiles, fs, fs0, img, pc, search_dir,
          piece_files, missing, warnings, piece_width, piece_height,
          num_pieces, layout_width, layout_height, grid_cols, grid_rows,
          layout_via, canvas, i, pieces_placed, saved, output, exit_code,
          open_failed>>

inputVars == <<input_path, keep_pieces, zipFiles, fs0, img>>
locateVars == <<search_dir, piece_files, missing>>
layoutVars == <<num_pieces, layout_width, layout_height, grid_cols, grid_rows,
                layout_via>>
placeVars == <<canvas, i, pieces_placed>>

InputPaths == {"in", "pieces", "zip", "file", "nowhere"}
Modes == {"L", "LA", "RGB", "RGBA"}
NoImage == [mode |-> "RGB", w |-> 0, h |-> 0, px |-> <<>>]

\* the path of a directory input
DirChars(p) == IF p = "pieces" THEN WorkDir ELSE InDir

\* os.path.exists(input_path)
path_exists(p, f) ==
  CASE p = "nowhere" -> FALSE
    [] p = "pieces" -> f["pieces"].exists
    [] OTHER -> TRUE

\* zipfile.is_zipfile(input_path)
is_zipfile(p) == p = "zip"

\* os.path.isdir(input_path)
is_dir(p, f) ==
  CASE p = "in" -> TRUE
    [] p = "pieces" -> f["pieces"].exists
    [] OTHER -> FALSE

(***************************************************************************)
(* The image files: Image.open(path).size, .mode and the pixels.           *)
(***************************************************************************)
\* the files whose size and mode may differ from the others'
OddFiles == {5, 8}

ImgId(path) ==
  CHOOSE k \in 1..Len(Catalogue) : Catalogue[k].name = basename(path)

IsOdd(path) == ImgId(path) \in OddFiles

ImgSize(path) ==
  IF img.oddSize /\ IsOdd(path) THEN <<img.w + 1, img.h + 1>>
  ELSE <<img.w, img.h>>

ImgMode(path) == IF IsOdd(path) THEN img.oddMode ELSE img.mode

\* the pixel (dx, dy) of the image, in the image's mode: every pixel of every
\* file differs
ImgPixel(path, dx, dy) ==
  LET t == 16 * ImgId(path) + 4 * dx + dy + 1
  IN  CASE ImgMode(path) = "L" -> <<t>>
        [] ImgMode(path) = "LA" -> <<t, 128>>
        [] ImgMode(path) = "RGB" -> <<t, 255 - t, (7 * t) % 256>>
        [] ImgMode(path) = "RGBA" -> <<t, 255 - t, (7 * t) % 256, 128>>

\* Image.paste's conversion of a pixel to the mode of the canvas
convert(px, from, to) ==
  CASE from = to -> px
    [] from = "L" /\ to = "RGB" -> <<px[1], px[1], px[1]>>
    [] from = "L" /\ to = "RGBA" -> <<px[1], px[1], px[1], 255>>
    [] from = "LA" /\ to = "RGB" -> <<px[1], px[1], px[1]>>
    [] from = "LA" /\ to = "RGBA" -> <<px[1], px[1], px[1], px[2]>>
    [] from = "RGB" /\ to = "RGBA" -> <<px[1], px[2], px[3], 255>>
    [] from = "RGBA" /\ to = "RGB" -> <<px[1], px[2], px[3]>>

\* Image.new(mode, size): black, and transparent with an alpha channel
image_new(mode, w, h) ==
  [mode |-> mode, w |-> w, h |-> h,
   px |-> [p \in (0..(w - 1)) \X (0..(h - 1)) |->
             IF mode = "RGBA" THEN <<0, 0, 0, 0>> ELSE <<0, 0, 0>>]]

\* reconstructed.paste(piece, (x, y)): the piece as it is, cut at the canvas'
\* edges, over what was there
image_paste(cv, path, x, y) ==
  LET sz == ImgSize(path)
  IN  [cv EXCEPT !.px =
         [p \in DOMAIN cv.px |->
            IF /\ x <= p[1] /\ p[1] < x + sz[1]
               /\ y <= p[2] /\ p[2] < y + sz[2]
            THEN convert(ImgPixel(path, p[1] - x, p[2] - y),
                         ImgMode(path), cv.mode)
            ELSE cv.px[p]]]

(***************************************************************************)
(* determine_grid_layout, from the piece count and the first piece's size. *)
(***************************************************************************)
FallbackCols == 40
FallbackRows == 25

\* a bug: the search starts one above the square root
int_sqrt_plus_one(n) ==
  1 + (CHOOSE s \in 0..n : s * s <= n /\ (s + 1) * (s + 1) > n)

\* int(math.sqrt(n))
int_sqrt(n) == CHOOSE s \in 0..n : s * s <= n /\ (s + 1) * (s + 1) > n

\* for cols in range(sqrt_pieces, 0, -1): the first cols dividing n, 0 if the
\* loop ends without one
RECURSIVE search_cols(_, _)
search_cols(n, cols) ==
  IF cols < 1 THEN 0
  ELSE IF n % cols = 0 THEN cols
  ELSE search_cols(n, cols - 1)

\* a bug: the divisor pair the other way round, wider than tall
determine_grid_layout_wide(n, w, h) ==
  IF w = 1 THEN [cols |-> n, rows |-> 1, via |-> "vertical_strips"]
  ELSE IF h = 1 THEN [cols |-> 1, rows |-> n, via |-> "horizontal_strips"]
  ELSE LET c == search_cols(n, int_sqrt(n))
       IN  [cols |-> n \div c, rows |-> c, via |-> "loop"]

\* a bug: the height is looked at before the width
determine_grid_layout_height_first(n, w, h) ==
  IF h = 1 THEN [cols |-> 1, rows |-> n, via |-> "horizontal_strips"]
  ELSE IF w = 1 THEN [cols |-> n, rows |-> 1, via |-> "vertical_strips"]
  ELSE LET c == search_cols(n, int_sqrt(n))
       IN  [cols |-> c, rows |-> n \div c, via |-> "loop"]

determine_grid_layout(n, w, h) ==
  IF w = 1 THEN [cols |-> n, rows |-> 1, via |-> "vertical_strips"]
  ELSE IF h = 1 THEN [cols |-> 1, rows |-> n, via |-> "horizontal_strips"]
  ELSE LET sqrt_pieces == int_sqrt(n)
           cols == search_cols(n, sqrt_pieces)
       IN  IF cols > 0
           THEN [cols |-> cols, rows |-> n \div cols, via |-> "loop"]
           ELSE IF n = ExpectedCount
           THEN [cols |-> FallbackCols, rows |-> FallbackRows,
                 via |-> "fallback"]
           ELSE [cols |-> sqrt_pieces, rows |-> sqrt_pieces, via |-> "sqrt"]

(***************************************************************************)
(* The run: main, extract_pieces, reconstruct_image.                       *)
(***************************************************************************)
\* sys.exit(code), and the end of main
Exit(code) ==
  /\ pc' = "exit"
  /\ exit_code' = code

\* main, lines 229-236: the input must exist
MainCheckInput ==
  /\ pc = "main"
  /\ IF path_exists(input_path, fs)
     THEN pc' = "extract" /\ exit_code' = exit_code
     ELSE Exit(1)
  /\ UNCHANGED <<inputVars, fs, locateVars, warnings, piece_width,
                 piece_height, layoutVars, placeVars, saved, output,
                 open_failed>>

\* extract_pieces, lines 39-81, called at line 240
ExtractPieces ==
  /\ pc = "extract"
  /\ LET \* lines 44-46: rmtree and makedirs of extract_dir
         cleared == [fs EXCEPT !["pieces"] = [exists |-> TRUE, files |-> <<>>]]
         zip == is_zipfile(input_path)
         dir == ~zip /\ is_dir(input_path, cleared)
         \* lines 51-52: extractall
         after == IF zip THEN [cleared EXCEPT !["pieces"].files = zipFiles]
                  ELSE cleared
         root == IF zip THEN WorkDir
                 ELSE IF dir THEN DirChars(input_path) ELSE <<>>
         listing == IF zip THEN after["pieces"].files
                    ELSE IF dir THEN after[input_path].files ELSE <<>>
         image_files == sort_by_number(find_image_files(root, listing))
         gaps == IF image_files # <<>> THEN missing_numbers(image_files)
                 ELSE {}
     IN  /\ fs' = after
         /\ search_dir' = root
         /\ piece_files' = IF zip \/ dir THEN image_files ELSE <<>>
         /\ missing' = IF zip \/ dir THEN gaps ELSE {}
         /\ warnings' = IF (zip \/ dir) /\ gaps # {}
                        THEN warnings \cup {"missing"} ELSE warnings
  /\ pc' = "pieces"
  /\ UNCHANGED <<inputVars, piece_width, piece_height, layoutVars, placeVars,
                 saved, output, exit_code, open_failed>>

\* main, lines 242-251: no piece is fatal, an unexpected count is not
MainCheckPieces ==
  /\ pc = "pieces"
  /\ IF piece_files = <<>>
     THEN Exit(1) /\ warnings' = warnings
     ELSE /\ pc' = "reconstruct"
          /\ exit_code' = exit_code
          /\ warnings' = IF Len(piece_files) # ExpectedCount
                         THEN warnings \cup {"count"} ELSE warnings
  /\ UNCHANGED <<inputVars, fs, locateVars, piece_width, piece_height,
                 layoutVars, placeVars, saved, output, open_failed>>

\* reconstruct_image, lines 125-136: the first piece's size; without pieces
\* it returns None and main exits, lines 269-271
ReconstructProbe ==
  /\ pc = "reconstruct"
  /\ IF piece_files = <<>>
     THEN /\ Exit(1)
          /\ UNCHANGED <<piece_width, piece_height>>
     ELSE /\ piece_width' = ImgSize(piece_files[1])[1]
          /\ piece_height' = ImgSize(piece_files[1])[2]
          /\ pc' = "layout"
          /\ exit_code' = exit_code
  /\ UNCHANGED <<inputVars, fs, locateVars, warnings, layoutVars, placeVars,
                 saved, output, open_failed>>

\* determine_grid_layout, lines 84-96: the first piece's size and the count;
\* without pieces it returns (1, 1)
LayoutProbe ==
  /\ pc = "layout"
  /\ IF piece_files = <<>>
     THEN /\ grid_cols' = 1
          /\ grid_rows' = 1
          /\ layout_via' = "empty"
          /\ pc' = "canvas"
          /\ UNCHANGED <<num_pieces, layout_width, layout_height>>
     ELSE /\ num_pieces' = Len(piece_files)
          /\ layout_width' = ImgSize(piece_files[1])[1]
          /\ layout_height' = ImgSize(piece_files[1])[2]
          /\ pc' = "decide"
          /\ UNCHANGED <<grid_cols, grid_rows, layout_via>>
  /\ UNCHANGED <<inputVars, fs, locateVars, warnings, piece_width,
                 piece_height, placeVars, saved, output, exit_code,
                 open_failed>>

\* determine_grid_layout, lines 98-122, and the assignment of line 139
LayoutDecide ==
  /\ pc = "decide"
  /\ LET r == determine_grid_layout(num_pieces, layout_width, layout_height)
     IN  /\ grid_cols' = r.cols
         /\ grid_rows' = r.rows
         /\ layout_via' = r.via
  /\ pc' = "canvas"
  /\ UNCHANGED <<inputVars, fs, locateVars, warnings, piece_width,
                 piece_height, num_pieces, layout_width, layout_height,
                 placeVars, saved, output, exit_code, open_failed>>

\* reconstruct_image, lines 141-156: the mode of the first piece, the canvas
CreateCanvas ==
  /\ pc = "canvas"
  /\ LET sample == ImgMode(piece_files[1])
         mode == IF sample \in {"RGB", "RGBA"} THEN sample ELSE "RGB"
     IN  canvas' = image_new(mode, piece_width * grid_cols,
                             piece_height * grid_rows)
  /\ i' = 0
  /\ pieces_placed' = 0
  /\ pc' = "place"
  /\ UNCHANGED <<inputVars, fs, locateVars, warnings, piece_width,
                 piece_height, layoutVars, saved, output, exit_code,
                 open_failed>>

\* a bug: the loop does not stop when the grid is full
PlacePiece_no_break ==
  /\ pc = "place"
  /\ i < Len(piece_files)
  /\ canvas' = image_paste(canvas, piece_files[i + 1],
                           (i % grid_cols) * piece_width,
                           (i \div grid_cols) * piece_height)
  /\ pieces_placed' = pieces_placed + 1
  /\ i' = i + 1
  /\ UNCHANGED <<inputVars, fs, pc, locateVars, warnings, piece_width,
                 piece_height, layoutVars, saved, output, exit_code,
                 open_failed>>

\* reconstruct_image, lines 157-178: one pass of the placement loop
PlacePiece ==
  /\ pc = "place"
  /\ i < Len(piece_files)
  /\ i < grid_cols * grid_rows
  /\ LET row == i \div grid_cols
         col == i % grid_cols
         x == col * piece_width
         y == row * piece_height
     IN  canvas' = image_paste(canvas, piece_files[i + 1], x, y)
  /\ pieces_placed' = pieces_placed + 1
  /\ i' = i + 1
  /\ UNCHANGED <<inputVars, fs, pc, locateVars, warnings, piece_width,
                 piece_height, layoutVars, saved, output, exit_code,
                 open_failed>>

\* reconstruct_image, lines 157-160: the loop ends with the pieces, or breaks
\* with the grid full
EndPlacement ==
  /\ pc = "place"
  /\ i >= Len(piece_files) \/ i >= grid_cols * grid_rows
  /\ warnings' = IF i < Len(piece_files) THEN warnings \cup {"overflow"}
                 ELSE warnings
  /\ pc' = "save"
  /\ UNCHANGED <<inputVars, fs, locateVars, piece_width, piece_height,
                 layoutVars, placeVars, saved, output, exit_code,
                 open_failed>>

\* a bug: a piece of the loop that cannot be opened is skipped
OpenFails_skips_piece ==
  /\ pc = "place"
  /\ i < Len(piece_files)
  /\ i < grid_cols * grid_rows
  /\ open_failed' = TRUE
  /\ i' = i + 1
  /\ UNCHANGED <<inputVars, fs, pc, locateVars, warnings, piece_width,
                 piece_height, layoutVars, canvas, pieces_placed, saved,
                 output, exit_code>>

\* Image.open raises at line 134, 90, 146 or 171: main's except, lines 273-277
OpenFails ==
  /\ \/ pc \in {"reconstruct", "layout", "canvas"}
     \/ pc = "place" /\ i < Len(piece_files) /\ i < grid_cols * grid_rows
  /\ open_failed' = TRUE
  /\ Exit(1)
  /\ UNCHANGED <<inputVars, fs, locateVars, warnings, piece_width,
                 piece_height, layoutVars, placeVars, saved, output>>

\* reconstruct_image, lines 180-185
SaveCanvas ==
  /\ pc = "save"
  /\ output' = canvas
  /\ saved' = saved + 1
  /\ pc' = "saved"
  /\ UNCHANGED <<inputVars, fs, locateVars, warnings, piece_width,
                 piece_height, layoutVars, placeVars, exit_code, open_failed>>

\* main, lines 256-267: analyze_image, the cleanup, the end of main
Finish ==
  /\ pc = "saved"
  /\ fs' = IF ~keep_pieces /\ fs["pieces"].exists
           THEN [fs EXCEPT !["pieces"] = [exists |-> FALSE, files |-> <<>>]]
           ELSE fs
  /\ Exit(0)
  /\ UNCHANGED <<inputVars, locateVars, warnings, piece_width, piece_height,
                 layoutVars, placeVars, saved, output, open_failed>>

(***************************************************************************)
(* The specifications.                                                     *)
(***************************************************************************)
ImgSets ==
  [w : 1..MaxDim, h : 1..MaxDim, oddSize : BOOLEAN, mode : Modes,
   oddMode : Modes]

\* the working directory before the run: absent, empty, or with a stale file
WorkStates ==
  {[exists |-> FALSE, files |-> <<>>], [exists |-> TRUE, files |-> <<>>],
   [exists |-> TRUE, files |-> <<StaleFile>>]}

\* the locals of the run before anything ran
InitLocals ==
  /\ search_dir = <<>>
  /\ piece_files = <<>>
  /\ missing = {}
  /\ warnings = {}
  /\ piece_width = 0
  /\ piece_height = 0
  /\ num_pieces = 0
  /\ layout_width = 0
  /\ layout_height = 0
  /\ grid_cols = 0
  /\ grid_rows = 0
  /\ layout_via = "none"
  /\ canvas = NoImage
  /\ i = 0
  /\ pieces_placed = 0
  /\ saved = 0
  /\ output = NoImage
  /\ exit_code = -1
  /\ open_failed = FALSE

\* a run of main
Init ==
  /\ input_path \in InputPaths
  /\ keep_pieces \in BOOLEAN
  /\ \E l \in Prefixes, wk \in WorkStates :
       /\ zipFiles = IF input_path = "zip" THEN l ELSE <<>>
       /\ fs = [d \in {"pieces", "in"} |->
                  IF d = "pieces" THEN wk
                  ELSE [exists |-> TRUE,
                        files |-> IF input_path = "in" THEN l ELSE <<>>]]
  /\ fs0 = fs
  /\ img \in ImgSets
  /\ pc = "main"
  /\ InitLocals

Next ==
  \/ MainCheckInput
  \/ ExtractPieces
  \/ MainCheckPieces
  \/ ReconstructProbe
  \/ LayoutProbe
  \/ LayoutDecide
  \/ CreateCanvas
  \/ PlacePiece
  \/ EndPlacement
  \/ OpenFails
  \/ SaveCanvas
  \/ Finish

Spec == Init /\ [][Next]_vars

\* the locator alone: extract_pieces on an existing archive or directory,
\* its files in any order os.walk can give
InitLocate ==
  /\ input_path \in {"in", "zip"}
  /\ keep_pieces = FALSE
  /\ \E l \in Listings(MaxFiles), wk \in WorkStates :
       /\ zipFiles = IF input_path = "zip" THEN l ELSE <<>>
       /\ fs = [d \in {"pieces", "in"} |->
                  IF d = "pieces" THEN wk
                  ELSE [exists |-> TRUE,
                        files |-> IF input_path = "in" THEN l ELSE <<>>]]
  /\ fs0 = fs
  /\ img = [w |-> 1, h |-> 1, oddSize |-> FALSE, mode |-> "RGB",
            oddMode |-> "RGB"]
  /\ pc = "extract"
  /\ InitLocals

NextLocate == ExtractPieces

SpecLocate == InitLocate /\ [][NextLocate]_vars

\* the layout inference alone: lines 98-122 on any count and first-piece size
InitLayout ==
  /\ input_path = "in"
  /\ keep_pieces = FALSE
  /\ zipFiles = <<>>
  /\ fs = [d \in {"pieces", "in"} |-> [exists |-> TRUE, files |-> <<>>]]
  /\ fs0 = fs
  /\ img = [w |-> 1, h |-> 1, oddSize |-> FALSE, mode |-> "RGB",
            oddMode |-> "RGB"]
  /\ pc = "decide"
  /\ search_dir = <<>>
  /\ piece_files = <<>>
  /\ missing = {}
  /\ warnings = {}
  /\ piece_width = 0
  /\ piece_height = 0
  /\ num_pieces \in (1..MaxN) \cup {ExpectedCount}
  /\ layout_width \in 1..MaxDim
  /\ layout_height \in 1..MaxDim
  /\ grid_cols = 0
  /\ grid_rows = 0
  /\ layout_via = "none"
  /\ canvas = NoImage
  /\ i = 0
  /\ pieces_placed = 0
  /\ saved = 0
  /\ output = NoImage
  /\ exit_code = -1
  /\ open_failed = FALSE

NextLayout == LayoutDecide

SpecLayout == InitLayout /\ [][NextLayout]_vars

\* the composition alone: lines 141-185 on located pieces and any layout
InitCompose ==
  /\ input_path = "in"
  /\ keep_pieces = FALSE
  /\ zipFiles = <<>>
  /\ \E l \in Prefixes :
       /\ fs = [d \in {"pieces", "in"} |->
                  [exists |-> TRUE,
                   files |-> IF d = "in" THEN l ELSE <<>>]]
       /\ piece_files = sort_by_number(find_image_files(InDir, l))
  /\ piece_files # <<>>
  /\ fs0 = fs
  /\ img \in ImgSets
  /\ pc = "canvas"
  /\ search_dir = InDir
  /\ missing = {}
  /\ warnings = {}
  /\ piece_width = ImgSize(piece_files[1])[1]
  /\ piece_height = ImgSize(piece_files[1])[2]
  /\ num_pieces = Len(piece_files)
  /\ layout_width = piece_width
  /\ layout_height = piece_height
  /\ grid_cols \in 1..MaxGrid
  /\ grid_rows \in 1..MaxGrid
  /\ layout_via = "none"
  /\ canvas = NoImage
  /\ i = 0
  /\ pieces_placed = 0
  /\ saved = 0
  /\ output = NoImage
  /\ exit_code = -1
  /\ open_failed = FALSE

NextCompose ==
  \/ CreateCanvas
  \/ PlacePiece
  \/ EndPlacement
  \/ OpenFails
  \/ SaveCanvas

SpecCompose == InitCompose /\ [][NextCompose]_vars

(***************************************************************************)
(* The layout inference: C1, C2, C3, under SpecLayout.                     *)
(***************************************************************************)
LayoutReturned == pc = "canvas"
Tiles == layout_width > 1 /\ layout_height > 1

\* C1, as amended: for 1000 pieces wider and taller than one pixel the layout
\* is 25 columns by 40 rows, the divisor search's result.
C1_Layout1000Is25x40 ==
  (LayoutReturned /\ num_pieces = ExpectedCount /\ Tiles)
    => (grid_cols = 25 /\ grid_rows = 40)

C1_Witness ==
  /\ LayoutReturned
  /\ num_pieces = ExpectedCount
  /\ Tiles
  /\ grid_cols = 25

\* C1, as claimed: for 1000 pieces wider and taller than one pixel the layout
\* is 40 columns by 25 rows.
C1_Layout1000Is40x25 ==
  (LayoutReturned /\ num_pieces = ExpectedCount /\ Tiles)
    => (grid_cols = 40 /\ grid_rows = 25)

\* C2: for pieces wider and taller than one pixel, columns is the largest
\* divisor of the count that is at most its integer square root, rows is the
\* count over columns, columns * rows is the count, columns <= rows, and the
\* function returns from inside the loop, never by the fallback or the
\* (sqrt, sqrt) return after it.
C2_LargestDivisorBelowSqrt ==
  (LayoutReturned /\ Tiles) =>
    /\ grid_cols >= 1
    /\ num_pieces % grid_cols = 0
    /\ grid_cols * grid_cols <= num_pieces
    /\ \A d \in (grid_cols + 1)..num_pieces :
         ~(num_pieces % d = 0 /\ d * d <= num_pieces)
    /\ grid_rows * grid_cols = num_pieces
    /\ grid_cols <= grid_rows
    /\ layout_via = "loop"

C2_Witness ==
  /\ LayoutReturned
  /\ Tiles
  /\ num_pieces = 12
  /\ grid_cols = 3
  /\ grid_rows = 4

\* C3: a first piece one pixel wide gives one row of all the pieces, whatever
\* its height; otherwise a first piece one pixel tall gives one column of all
\* the pieces; neither case searches for a divisor.
C3_StripRules ==
  LayoutReturned =>
    /\ layout_width = 1 =>
         /\ grid_cols = num_pieces
         /\ grid_rows = 1
         /\ layout_via = "vertical_strips"
    /\ (layout_width # 1 /\ layout_height = 1) =>
         /\ grid_cols = 1
         /\ grid_rows = num_pieces
         /\ layout_via = "horizontal_strips"

C3_Witness ==
  /\ LayoutReturned
  /\ layout_width = 1
  /\ layout_height = 1
  /\ num_pieces > 1
  /\ grid_cols = num_pieces
  /\ grid_rows = 1

(***************************************************************************)
(* The locator: C4, C5, C6, under SpecLocate.                              *)
(***************************************************************************)
Located == pc = "pieces"

\* the directory extract_pieces searches and the files below it
SearchRoot == IF input_path = "zip" THEN WorkDir ELSE DirChars(input_path)
SearchListing ==
  IF input_path = "zip" THEN zipFiles ELSE fs0[input_path].files

Discovered == find_image_files(SearchRoot, SearchListing)
NumberOf(k) == extract_number_from_filename(piece_files[k])
PositionOf(path) == CHOOSE k \in 1..Len(piece_files) : piece_files[k] = path

\* C4: the located sequence is a permutation of the discovered files, in
\* non-decreasing order of their numbers, files of equal number in the order
\* of their discovery.
C4_SortedStablePermutation ==
  Located =>
    /\ Len(piece_files) = Len(Discovered)
    /\ \A a \in 1..Len(Discovered) :
         \E k \in 1..Len(piece_files) : piece_files[k] = Discovered[a]
    /\ \A j, k \in 1..Len(piece_files) :
         j # k => piece_files[j] # piece_files[k]
    /\ \A k \in 1..(Len(piece_files) - 1) : NumberOf(k) <= NumberOf(k + 1)
    /\ \A a, b \in 1..Len(Discovered) :
         (/\ a < b
          /\ extract_number_from_filename(Discovered[a])
               = extract_number_from_filename(Discovered[b]))
           => PositionOf(Discovered[a]) < PositionOf(Discovered[b])

\* two files of equal number found after a file of a larger number
C4_Witness ==
  /\ Located
  /\ Len(piece_files) = 3
  /\ piece_files # Discovered
  /\ NumberOf(1) = NumberOf(2)
  /\ NumberOf(2) < NumberOf(3)

ObservedNumbers == {NumberOf(k) : k \in 1..Len(piece_files)}

\* C5: for a non-empty discovered set the missing set is the integers
\* between the smallest and the largest observed number that are not
\* observed; the warning is printed iff it is not empty; the located sequence
\* is the sorted discovered files either way and the run goes on.
C5_MissingNumbers ==
  (Located /\ piece_files # <<>>) =>
    /\ \A k \in missing :
         /\ k \notin ObservedNumbers
         /\ \E lo, hi \in ObservedNumbers : lo <= k /\ k <= hi
    /\ \A lo, hi \in ObservedNumbers :
         \A k \in lo..hi : k \notin ObservedNumbers => k \in missing
    /\ ("missing" \in warnings) <=> (missing # {})
    /\ ObservedNumbers = {0, 1, 3, 4} => missing = {2}
    /\ piece_files = sort_by_number(Discovered)
    /\ exit_code = -1

C5_Witness ==
  /\ Located
  /\ ObservedNumbers = {0, 1, 3, 4}
  /\ missing = {2}
  /\ "missing" \in warnings
  /\ Len(piece_files) = 4

\* the claim's three conditions, read off the characters of the names
HasImageExtension(name) ==
  LET n == Len(name)
  IN  \/ /\ n >= 4
         /\ name[n - 3] = "."
         /\ <<name[n - 2], name[n - 1], name[n]>>
              \in {<<"p", "n", "g">>, <<"j", "p", "g">>}
      \/ /\ n >= 5
         /\ name[n - 4] = "."
         /\ <<name[n - 3], name[n - 2], name[n - 1], name[n]>>
              = <<"j", "p", "e", "g">>

HasMetaPrefix(name) == Len(name) >= 2 /\ name[1] = "." /\ name[2] = "_"

ContainingDir(e) == IF e.sub = <<>> THEN SearchRoot
                    ELSE SearchRoot \o <<"/">> \o e.sub

InMetaFolder(dir) ==
  \E k \in 1..Len(dir) :
    /\ k + 7 <= Len(dir)
    /\ \A j \in 0..7 : dir[k + j] = MACOSX[j + 1]

ListedEntries == {SearchListing[k] : k \in 1..Len(SearchListing)}

ImageEntries ==
  {e \in ListedEntries :
     /\ HasImageExtension(e.name)
     /\ ~HasMetaPrefix(e.name)
     /\ ~InMetaFolder(ContainingDir(e))}

\* C6: a file below the search root is returned iff its name ends with
\* .png, .jpg or .jpeg, does not start with "._", and its directory's path
\* does not contain "__MACOSX"; a directory holding ._piece_001.png and
\* piece_001.png gives one piece, piece_001.png.
C6_ImageFilesOnly ==
  Located =>
    /\ {piece_files[k] : k \in 1..Len(piece_files)}
         = {ContainingDir(e) \o <<"/">> \o e.name : e \in ImageEntries}
    /\ Len(piece_files) = Cardinality(ImageEntries)
    /\ ListedEntries = {Catalogue[1], Catalogue[2]}
         => piece_files = <<SearchRoot \o <<"/">> \o Piece001>>

C6_Witness ==
  /\ Located
  /\ ListedEntries = {Catalogue[1], Catalogue[2]}
  /\ Len(piece_files) = 1
  /\ NumberOf(1) = 1

(***************************************************************************)
(* The run: C7, C8, C9, under Spec.                                        *)
(***************************************************************************)
\* the input is a directory when the run starts
DirectoryInput == is_dir(input_path, fs0)

FilesOf(f, d) == {f[d].files[k] : k \in 1..Len(f[d].files)}

\* C7, as claimed: with a directory as input no file that was in the working
\* directory or in the input directory is deleted, and the run ends with the
\* directories as it found them.
C7_DirectoryInputKeepsFiles ==
  DirectoryInput =>
    /\ \A d \in DOMAIN fs0 :
         fs0[d].exists => (fs[d].exists /\ FilesOf(fs0, d) \subseteq FilesOf(fs, d))
    /\ pc = "exit" => fs = fs0

Ended == pc = "exit"
InputMissing == ~path_exists(input_path, fs0)
InputUnrecognized == input_path = "file"
NoPieceFound == pc \notin {"main", "extract"} /\ piece_files = <<>>
PlacementDone ==
  /\ pc \in {"save", "saved", "exit"}
  /\ i >= Min(Len(piece_files), grid_cols * grid_rows)
  /\ pieces_placed = i

\* C8: the canvas is saved at most once and only after the placement loop
\* has ended; a run whose input is missing or neither archive nor directory,
\* that finds no image file, or in which an Image.open fails, ends with exit
\* code 1 and nothing saved; a run ends with exit code 0 only with the canvas
\* saved once.
C8_WholeOrNothing ==
  /\ saved <= 1
  /\ saved = 1 => (PlacementDone /\ pc # "save" /\ output = canvas)
  /\ saved = 0 => output = NoImage
  /\ (InputMissing \/ InputUnrecognized \/ NoPieceFound \/ open_failed) =>
       /\ saved = 0
       /\ exit_code # 0
       /\ Ended => exit_code = 1
       /\ pc \in {"main", "extract", "pieces", "exit"}
  /\ open_failed => Ended
  /\ (Ended /\ exit_code = 0) => saved = 1
  /\ Ended <=> exit_code # -1

\* an Image.open of the placement loop failed after a piece was pasted
C8_Witness ==
  /\ Ended
  /\ open_failed
  /\ exit_code = 1
  /\ pieces_placed >= 1
  /\ saved = 0

Count == Len(piece_files)
Uniform ==
  \A k \in 1..Count : ImgSize(piece_files[k]) = <<piece_width, piece_height>>
CellX(k) == (k % grid_cols) * piece_width
CellY(k) == (k \div grid_cols) * piece_height
Composed == pc \in {"save", "saved"} \/ (pc = "exit" /\ exit_code = 0)
\* the pieces pasted so far
Pasted == IF Composed THEN Count ELSE IF pc = "place" THEN i ELSE 0

\* the canvas and the cells of the pieces, for uniform pieces
Geometry ==
  /\ canvas.w = grid_cols * piece_width
  /\ canvas.h = grid_rows * piece_height
  /\ DOMAIN canvas.px = (0..(canvas.w - 1)) \X (0..(canvas.h - 1))
  /\ \A k \in 0..(Count - 1) :
       /\ CellX(k) + piece_width <= canvas.w
       /\ CellY(k) + piece_height <= canvas.h
  /\ \A j, k \in 0..(Count - 1) :
       j # k =>
         \/ CellX(j) + piece_width <= CellX(k)
         \/ CellX(k) + piece_width <= CellX(j)
         \/ CellY(j) + piece_height <= CellY(k)
         \/ CellY(k) + piece_height <= CellY(j)

\* the canvas read at piece k's cell
ReadBack(k, dx, dy) == canvas.px[<<CellX(k) + dx, CellY(k) + dy>>]

\* what a pixel shows: its colour, a grey level being the colour of that
\* level, and its opacity, full without an alpha channel
Colour(px, mode) ==
  IF mode \in {"L", "LA"} THEN <<px[1], px[1], px[1]>>
  ELSE <<px[1], px[2], px[3]>>
Opacity(px, mode) ==
  CASE mode = "LA" -> px[2]
    [] mode = "RGBA" -> px[4]
    [] OTHER -> 255
SameContent(px, mode, qx, qmode) ==
  /\ Colour(px, mode) = Colour(qx, qmode)
  /\ Opacity(px, mode) = Opacity(qx, qmode)

\* C9: for uniform pieces the canvas is (columns * w, rows * h), the cells at
\* ((i mod columns) * w, (i div columns) * h) lie inside it and are pairwise
\* disjoint, and the canvas read at the cell of a pasted piece shows that
\* piece's content, during the loop and after it.
C9_PlacementRoundTrip ==
  (Uniform /\ (Composed \/ pc = "place")) =>
    /\ Geometry
    /\ Composed => pieces_placed = Count
    /\ \A k \in 0..(Pasted - 1) :
         \A dx \in 0..(piece_width - 1), dy \in 0..(piece_height - 1) :
           LET path == piece_files[k + 1]
           IN  SameContent(ReadBack(k, dx, dy), canvas.mode,
                           ImgPixel(path, dx, dy), ImgMode(path))

\* The part of C9 that holds: the geometry, and the canvas read at the cell
\* of a pasted piece is that piece's content converted to the canvas' mode,
\* which shows the piece's content unless the piece has an alpha channel and
\* the canvas has none.
C9_PastedAsConverted ==
  (Uniform /\ (Composed \/ pc = "place")) =>
    /\ Geometry
    /\ Composed => pieces_placed = Count
    /\ \A k \in 0..(Pasted - 1) :
         \A dx \in 0..(piece_width - 1), dy \in 0..(piece_height - 1) :
           LET path == piece_files[k + 1]
           IN  /\ ReadBack(k, dx, dy)
                    = convert(ImgPixel(path, dx, dy), ImgMode(path),
                              canvas.mode)
               /\ (ImgMode(path) \in {"L", "RGB"} \/ canvas.mode = "RGBA")
                    => SameContent(ReadBack(k, dx, dy), canvas.mode,
                                   ImgPixel(path, dx, dy), ImgMode(path))

\* six uniform 2 x 2 pieces composed in 2 columns and 3 rows
C9_Composed2x3 ==
  /\ pc = "saved"
  /\ Uniform
  /\ Count = 6
  /\ grid_cols = 2
  /\ grid_rows = 3
  /\ piece_width = 2
  /\ piece_height = 2

(***************************************************************************)
(* The placement loop on any layout: C10, under SpecCompose.               *)
(***************************************************************************)
Cells == grid_cols * grid_rows
LoopEnded == pc \in {"save", "saved"}

\* no pixel of the canvas comes from piece k (every pixel's first channel
\* names its file)
NotOnCanvas(k) ==
  \A p \in DOMAIN canvas.px :
    \/ canvas.px[p][1] = 0
    \/ (canvas.px[p][1] - 1) \div 16 # ImgId(piece_files[k + 1])

\* C10: when the placement loop ends min(N, columns * rows) pieces are
\* placed; with columns * rows < N it ends at index columns * rows, none of
\* the pieces from that index on is on the canvas, the overflow warning is
\* printed, and the canvas is saved all the same.
C10_GridOverflow ==
  LoopEnded =>
    /\ pieces_placed = Min(Count, Cells)
    /\ i = Min(Count, Cells)
    /\ ("overflow" \in warnings) <=> (Cells < Count)
    /\ Cells < Count => \A k \in Cells..(Count - 1) : NotOnCanvas(k)
    /\ pc = "save" => ENABLED SaveCanvas
    /\ pc = "saved" => (saved = 1 /\ output = canvas /\ exit_code = -1)

\* five pieces on a grid of two cells, saved
C10_Witness ==
  /\ pc = "saved"
  /\ Count = 5
  /\ Cells = 2
  /\ pieces_placed = 2
  /\ "overflow" \in warnings
  /\ saved = 1

=============================================================================
